---- MODULE Spec2Model ----
(***************************************************************************)
(* Model of the ILI2117 I2C touchscreen driver                              *)
(* (drivers/input/touchscreen/ili2117.c): the packed wire frame, the        *)
(* decode/report loop, the delayed-work polling cycle, the interrupt        *)
(* handler and the probe/remove lifecycle.                                  *)
(***************************************************************************)
EXTENDS Integers, Sequences, FiniteSets, TLC

(***************************************************************************)
(* Program constants.                                                       *)
(***************************************************************************)
MAX_TOUCHES == 10
DEFAULT_POLL_PERIOD == 20
X_MAX == 2047
Y_MAX == 2047
\* the packet id tested by the driver (0x5a) and the checksum sentinel (0xff)
TOUCH_PACKET_ID == 90
NO_TOUCH_SUM == 255

(***************************************************************************)
(* Bounds of the model.                                                     *)
(***************************************************************************)
\* worker threads of the system workqueue that may pick the work item up
NWorkers == 2
\* the interrupt counter saturates at this value
MaxIrqs == 2
\* the largest period read from released memory (priv->poll_period is an
\* unsigned int; larger values only lengthen the timer)
MaxReleasedPeriod == 1000

\* the periods read from released memory
ReleasedPeriods == 0 .. MaxReleasedPeriod

Workers == 1..NWorkers
Slots == 0..(MAX_TOUCHES - 1)

(***************************************************************************)
(* C integer helpers.                                                       *)
(***************************************************************************)
RECURSIVE BitOr(_, _)
\* a | b on non-negative ints, bit by bit
BitOr(a, b) ==
    IF a = 0 THEN b
    ELSE IF b = 0 THEN a
    ELSE (IF (a % 2 = 1) \/ (b % 2 = 1) THEN 1 ELSE 0)
         + 2 * BitOr(a \div 2, b \div 2)

RECURSIVE Shl(_, _)
\* a << n in int arithmetic (no overflow arises for the 4-bit operands used)
Shl(a, n) == IF n = 0 THEN a ELSE Shl(2 * a, n - 1)

(***************************************************************************)
(* Wire layout: struct finger (4 bytes) and struct touchdata, both packed.  *)
(* A buffer is the sequence of bytes the transfer stored, buf[1] being the  *)
(* byte at offset 0.  Bit-fields are allocated from the low bits upwards    *)
(* (little-endian ARM ABI): the first declared field is the low nibble.     *)
(***************************************************************************)
FINGER_SIZE == 4
\* sizeof(struct touchdata) = packet_id + finger[MAX_TOUCHES] + key/p_sensor + checksum
TOUCHDATA_SIZE == 1 + MAX_TOUCHES * FINGER_SIZE + 1 + 1

\* struct finger at index i of the finger array of the buffer
finger(buf, i) ==
    LET b == 1 + i * FINGER_SIZE
    IN  [ y_hi  |-> buf[b + 1] % 16,
          x_hi  |-> buf[b + 1] \div 16,
          x_lo  |-> buf[b + 2],
          y_lo  |-> buf[b + 3],
          c_sum |-> buf[b + 4] ]

\* struct touchdata overlaid on the buffer
touchdata_of(buf) ==
    [ packet_id |-> buf[1],
      finger    |-> [i \in Slots |-> finger(buf, i)],
      key       |-> buf[TOUCHDATA_SIZE - 1] % 16,
      p_sensor  |-> buf[TOUCHDATA_SIZE - 1] \div 16,
      checksum  |-> buf[TOUCHDATA_SIZE] ]

(***************************************************************************)
(* The input device (event sink): the current slot, the per-slot contact    *)
(* state and the calls received since the last sync.                        *)
(***************************************************************************)
ReleasedSlot == [active |-> FALSE, x |-> 0, y |-> 0]

\* input_mt_slot(input, i): select the slot the following events refer to
input_mt_slot(dev, i) ==
    [dev EXCEPT !.slot = i,
                !.log = Append(@, <<"slot", i>>)]

\* input_mt_report_slot_state(input, MT_TOOL_FINGER, active)
input_mt_report_slot_state(dev, active) ==
    [dev EXCEPT !.slots[dev.slot] =
                    IF active THEN [@ EXCEPT !.active = TRUE] ELSE ReleasedSlot,
                !.log = Append(@, <<"state", active>>)]

\* input_report_abs(input, ABS_MT_POSITION_X, value)
input_report_abs_x(dev, value) ==
    [dev EXCEPT !.slots[dev.slot].x = value,
                !.log = Append(@, <<"abs_x", value>>)]

\* input_report_abs(input, ABS_MT_POSITION_Y, value)
input_report_abs_y(dev, value) ==
    [dev EXCEPT !.slots[dev.slot].y = value,
                !.log = Append(@, <<"abs_y", value>>)]

\* input_mt_report_pointer_emulation(input, false): BTN_TOUCH is reported
\* pressed iff some slot holds an active contact
input_mt_report_pointer_emulation(dev) ==
    [dev EXCEPT !.log = Append(@, <<"pointer",
                                    \E s \in Slots : dev.slots[s].active>>)]

\* input_sync(input): closes the packet; packets counts the syncs modulo 2
input_sync(dev) ==
    [dev EXCEPT !.log = Append(@, <<"sync">>),
                !.packets = (@ + 1) % 2]

(***************************************************************************)
(* ili2117_report_events                                                    *)
(***************************************************************************)
\* variant: the packet id is not tested
touch_any_packet(td, i) ==
    /\ td.checksum # NO_TOUCH_SUM
    /\ td.finger[i].c_sum # NO_TOUCH_SUM

\* variant: the per-finger checksum alone decides (no frame-level override)
touch_per_finger(td, i) ==
    /\ td.packet_id = TOUCH_PACKET_ID
    /\ td.finger[i].c_sum # NO_TOUCH_SUM

\* the validity test of one slot
touch(td, i) ==
    /\ td.packet_id = TOUCH_PACKET_ID
    /\ td.checksum # NO_TOUCH_SUM
    /\ td.finger[i].c_sum # NO_TOUCH_SUM

\* variant: the high bits are masked to the advertised range
finger_x_masked(f) == BitOr(f.x_lo, Shl(f.x_hi % 8, 8))

\* x = finger->x_lo | (finger->x_hi << 8)
finger_x(f) == BitOr(f.x_lo, Shl(f.x_hi, 8))

\* y = finger->y_lo | (finger->y_hi << 8)
finger_y(f) == BitOr(f.y_lo, Shl(f.y_hi, 8))

\* variant: a release is reported only for a slot that held a contact
report_slot_on_change(dev, td, i) ==
    LET t == touch(td, i)
    IN  IF ~t /\ ~dev.slots[i].active
        THEN dev
        ELSE LET d2 == input_mt_report_slot_state(input_mt_slot(dev, i), t)
             IN  IF t
                 THEN input_report_abs_y(
                          input_report_abs_x(d2, finger_x(td.finger[i])),
                          finger_y(td.finger[i]))
                 ELSE d2

\* body of the loop for slot i
report_slot(dev, td, i) ==
    LET d1 == input_mt_slot(dev, i)
        t  == touch(td, i)
        d2 == input_mt_report_slot_state(d1, t)
    IN  IF t
        THEN input_report_abs_y(
                 input_report_abs_x(d2, finger_x(td.finger[i])),
                 finger_y(td.finger[i]))
        ELSE d2

RECURSIVE report_loop(_, _, _)
\* for (i = ...; i < MAX_TOUCHES; i++); d is the device as the previous
\* iterations left it, bound once per iteration
report_loop(dev, td, i) ==
    IF i < MAX_TOUCHES
    THEN CHOOSE r \in { report_loop(report_slot(d, td, i), td, i + 1) :
                           d \in {dev} } : TRUE
    ELSE dev

\* the whole function: the loop, the pointer emulation and the sync; the log
\* holds the calls of the latest packet only
ili2117_report_events(dev, td) ==
    input_sync(input_mt_report_pointer_emulation(
                   report_loop([dev EXCEPT !.log = <<>>], td, 0)))

(***************************************************************************)
(* Frames the bus delivers.  MkFrame lays the fields out as the sensor      *)
(* does; fs gives each slot its finger record.                              *)
(***************************************************************************)
RECURSIVE finger_bytes(_, _)
finger_bytes(fs, i) ==
    IF i = MAX_TOUCHES THEN <<>>
    ELSE << fs[i].y_hi + 16 * fs[i].x_hi, fs[i].x_lo, fs[i].y_lo, fs[i].c_sum >>
         \o finger_bytes(fs, i + 1)

MkFrame(pid, fs, kp, ck) == <<pid>> \o finger_bytes(fs, 0) \o <<kp, ck>>

\* slot i carries a touch at a position derived from its index iff i \in S
IndexedFingers(S) ==
    [i \in Slots |->
        [ y_hi  |-> (i + 3) % 16,
          x_hi  |-> (2 * i + 5) % 16,
          x_lo  |-> (37 * i + 100) % 256,
          y_lo  |-> (91 * i + 200) % 256,
          c_sum |-> IF i \in S THEN i + 1 ELSE NO_TOUCH_SUM ]]

\* only slot j carries a touch, at the position given by the four fields
SingleFinger(j, xh, xl, yh, yl) ==
    [i \in Slots |->
        IF i = j
        THEN [y_hi |-> yh, x_hi |-> xh, x_lo |-> xl, y_lo |-> yl, c_sum |-> 1]
        ELSE [y_hi |-> 0, x_hi |-> 0, x_lo |-> 0, y_lo |-> 0,
              c_sum |-> NO_TOUCH_SUM]]

PacketIds == {TOUCH_PACKET_ID, 0, 91}
FrameSums == {1, NO_TOUCH_SUM}
Nibbles == 0..15
LowBytes == {0, 165, 255}

\* frames read in the polling model
BusFrames ==
    { MkFrame(pid, IndexedFingers(S), 0, ck) :
        pid \in {TOUCH_PACKET_ID, 0}, ck \in FrameSums, S \in {{}, {0, 9}} }

\* frames exercising every combination of the sentinels
SentinelFrames ==
    { MkFrame(pid, IndexedFingers(S), 0, ck) :
        pid \in PacketIds, ck \in FrameSums, S \in SUBSET Slots }

Bytes == 0..255
EndSlots == {0, MAX_TOUCHES - 1}

\* frames exercising the coordinate fields of one slot: every pair of high
\* nibbles with sampled low bytes, and every value of one coordinate of the
\* last slot with the other coordinate at the top of its range
CoordinateFrames ==
    { MkFrame(TOUCH_PACKET_ID, SingleFinger(j, xh, xl, yh, yl), 0, 1) :
        j \in EndSlots, xh \in Nibbles, xl \in LowBytes,
        yh \in Nibbles, yl \in LowBytes }
    \cup
    { MkFrame(TOUCH_PACKET_ID, SingleFinger(MAX_TOUCHES - 1, h, l, 15, 255), 0, 1) :
        h \in Nibbles, l \in Bytes }
    \cup
    { MkFrame(TOUCH_PACKET_ID, SingleFinger(MAX_TOUCHES - 1, 15, 255, h, l), 0, 1) :
        h \in Nibbles, l \in Bytes }

CodecFrames == SentinelFrames \cup CoordinateFrames

NoBuf == <<>>

(***************************************************************************)
(* State.                                                                   *)
(***************************************************************************)
VARIABLES
    life,         \* position of probe/remove
    irq_armed,    \* the interrupt line is requested (request_irq .. free_irq)
    freed,        \* priv and the input device have been released
    poll_period,  \* priv->poll_period
    dwork,        \* priv->dwork: PENDING bit, timer, entries on the workqueue
    wpc,          \* per worker thread: position inside ili2117_work
    wbuf,         \* per worker thread: the local touchdata buffer
    input,        \* the input device
    uaf,          \* the work function has run on released state
    during,       \* an interrupt fired since the running cycle started
    burst,        \* interrupts since Idle whose read has not started yet
    served,       \* burst size the running cycle was started for
    owed,         \* an interrupt has fired and no read has started since
    resched       \* how the latest cycle ended: "nocycle", "failed", or the
                  \* fate of its re-read request ("none", "armed", "absorbed",
                  \* "blocked")

vars == << life, irq_armed, freed, poll_period, dwork, wpc, wbuf, input,
           uaf, during, burst, served, owed, resched >>

(***************************************************************************)
(* Kernel services used by the driver: delayed work and timers.             *)
(***************************************************************************)
\* timer ticks per second of the platform
HZ == 100

\* msecs_to_jiffies(m): milliseconds rounded up to whole ticks
msecs_to_jiffies(m) == (m + (1000 \div HZ) - 1) \div (1000 \div HZ)

NoTimer == -1
IdleWork == [pending |-> FALSE, timer |-> NoTimer, queued |-> 0]

\* queue_delayed_work: a work item whose PENDING bit is set is left alone;
\* otherwise the bit is set and the item is queued at once (delay 0) or its
\* timer is armed
queue_delayed_work(dw, delay) ==
    IF dw.pending THEN dw
    ELSE IF delay = 0
         THEN [dw EXCEPT !.pending = TRUE, !.queued = @ + 1]
         ELSE [dw EXCEPT !.pending = TRUE, !.timer = delay]

\* schedule_delayed_work(dwork, delay): queue_delayed_work on system_wq
schedule_delayed_work(dw, delay) == queue_delayed_work(dw, delay)

\* a read is outstanding: on the workqueue or waiting on its timer
ReadsPending == dwork.queued + (IF dwork.timer # NoTimer THEN 1 ELSE 0)
Running == {w \in Workers : wpc[w] # "idle"}
Idle == ReadsPending = 0 /\ Running = {}

\* saturating increment of the interrupt counters
Bump(n) == IF n < MaxIrqs THEN n + 1 ELSE n

(***************************************************************************)
(* Init: the state of ili2117_i2c_probe after the device state has been     *)
(* allocated and initialised, before the interrupt is requested.            *)
(***************************************************************************)
InitInput ==
    [slot |-> 0, slots |-> [s \in Slots |-> ReleasedSlot], log |-> <<>>,
     packets |-> 0]

Init ==
    /\ life = "probe_irq"
    /\ irq_armed = FALSE
    /\ freed = FALSE
    /\ poll_period = DEFAULT_POLL_PERIOD
    /\ dwork = IdleWork
    /\ wpc = [w \in Workers |-> "idle"]
    /\ wbuf = [w \in Workers |-> NoBuf]
    /\ input = InitInput
    /\ uaf = FALSE
    /\ during = FALSE
    /\ burst = 0
    /\ served = 0
    /\ owed = FALSE
    /\ resched = "nocycle"

(***************************************************************************)
(* ili2117_irq                                                              *)
(***************************************************************************)
\* variant: the handler reads and reports the frame itself
ili2117_irq_inline ==
    /\ irq_armed
    /\ \E buf \in BusFrames :
           input' = ili2117_report_events(input, touchdata_of(buf))
    /\ during' = (during \/ Running # {})
    /\ burst' = burst
    /\ owed' = TRUE
    /\ UNCHANGED << life, irq_armed, freed, poll_period, dwork, wpc, wbuf,
                    uaf, served, resched >>

\* variant: the handler restarts the work item with zero delay
\* (mod_delayed_work), whether or not it is pending
ili2117_irq_restart ==
    /\ irq_armed
    /\ dwork' = [pending |-> TRUE, timer |-> NoTimer, queued |-> 1]
    /\ during' = (during \/ Running # {})
    /\ burst' = IF Idle THEN 1
                ELSE IF burst > 0 THEN Bump(burst) ELSE 0
    /\ owed' = TRUE
    /\ UNCHANGED << life, irq_armed, freed, poll_period, wpc, wbuf, input,
                    uaf, served, resched >>

\* variant: an interrupt is ignored while a cycle is running
ili2117_irq_unless_busy ==
    /\ irq_armed
    /\ dwork' = IF Running # {} THEN dwork
                ELSE schedule_delayed_work(dwork, 0)
    /\ during' = (during \/ Running # {})
    /\ burst' = IF Idle THEN 1
                ELSE IF burst > 0 THEN Bump(burst) ELSE 0
    /\ owed' = TRUE
    /\ UNCHANGED << life, irq_armed, freed, poll_period, wpc, wbuf, input,
                    uaf, served, resched >>

\* variant: the handler calls ili2117_work itself, in its own context,
\* instead of scheduling the work item
ili2117_irq_calls_work ==
    /\ irq_armed
    /\ \E w \in Workers :
          /\ wpc[w] = "idle"
          /\ wpc' = [wpc EXCEPT ![w] = "read"]
    /\ during' = (during \/ Running # {})
    /\ burst' = 0
    /\ served' = 1
    /\ owed' = FALSE
    /\ UNCHANGED << life, irq_armed, freed, poll_period, dwork, wbuf, input,
                    uaf, resched >>

\* schedule_delayed_work(&priv->dwork, 0); return IRQ_HANDLED
ili2117_irq ==
    /\ irq_armed
    /\ dwork' = schedule_delayed_work(dwork, 0)
    /\ during' = (during \/ Running # {})
    /\ burst' = IF Idle THEN 1
                ELSE IF burst > 0 THEN Bump(burst) ELSE 0
    /\ owed' = TRUE
    /\ UNCHANGED << life, irq_armed, freed, poll_period, wpc, wbuf, input,
                    uaf, served, resched >>

(***************************************************************************)
(* The timer of the delayed work.                                           *)
(***************************************************************************)
\* one tick passes
timer_tick ==
    /\ dwork.timer > 0
    /\ dwork' = [dwork EXCEPT !.timer = @ - 1]
    /\ UNCHANGED << owed, life, irq_armed, freed, poll_period, wpc, wbuf, input,
                    uaf, during, burst, served, resched >>

\* delayed_work_timer_fn: the expired timer puts the work on the workqueue
delayed_work_timer_fn ==
    /\ dwork.timer = 0
    /\ dwork' = [dwork EXCEPT !.timer = NoTimer, !.queued = @ + 1]
    /\ UNCHANGED << owed, life, irq_armed, freed, poll_period, wpc, wbuf, input,
                    uaf, during, burst, served, resched >>

(***************************************************************************)
(* The worker: process_one_work and ili2117_work.                           *)
(***************************************************************************)
\* a worker may take the work item unless it is being executed already
may_execute(w) == \A v \in Workers : wpc[v] = "idle"

\* process_one_work: dequeue, clear PENDING, call the work function
process_one_work(w) ==
    /\ dwork.queued > 0
    /\ may_execute(w)
    /\ dwork' = [dwork EXCEPT !.queued = @ - 1, !.pending = FALSE]
    /\ wpc' = [wpc EXCEPT ![w] = "read"]
    /\ during' = FALSE
    /\ served' = burst
    /\ burst' = 0
    /\ owed' = FALSE
    /\ UNCHANGED << life, irq_armed, freed, poll_period, wbuf, input, uaf,
                    resched >>

\* the values a read of priv->poll_period can give: the period set by probe
\* while the device state is live; once it has been released, whatever the
\* memory holds by then (cleared, rewritten by a new owner, or still intact)
priv_poll_period ==
    IF freed THEN ReleasedPeriods ELSE {poll_period}

\* the values the PENDING bit of priv->dwork can have when it is tested: the
\* bit itself while the device state is live; once it has been released,
\* whatever the memory holds by then
priv_dwork_pending ==
    IF freed THEN BOOLEAN ELSE {dwork.pending}

\* ili2117_read fails: the error is logged and the work function returns
work_read_failed(w) ==
    /\ wpc[w] = "read"
    /\ uaf' = (uaf \/ freed)
    /\ wpc' = [wpc EXCEPT ![w] = "idle"]
    /\ served' = 0
    /\ resched' = "failed"
    /\ UNCHANGED << owed, life, irq_armed, freed, poll_period, dwork, wbuf, input,
                    during, burst >>

\* ili2117_read succeeds: sizeof(touchdata) bytes are stored in the buffer
work_read_done(w) ==
    /\ wpc[w] = "read"
    /\ uaf' = (uaf \/ freed)
    /\ \E buf \in BusFrames : wbuf' = [wbuf EXCEPT ![w] = buf]
    /\ wpc' = [wpc EXCEPT ![w] = "report"]
    /\ UNCHANGED << owed, life, irq_armed, freed, poll_period, dwork, input,
                    during, burst, served, resched >>

\* ili2117_report_events(priv->input, &touchdata)
work_report(w) ==
    /\ wpc[w] = "report"
    /\ uaf' = (uaf \/ freed)
    /\ input' = ili2117_report_events(input, touchdata_of(wbuf[w]))
    /\ wpc' = [wpc EXCEPT ![w] = "resched"]
    /\ UNCHANGED << owed, life, irq_armed, freed, poll_period, dwork, wbuf,
                    during, burst, served, resched >>

\* variant: the re-read is requested only while the frame carries touch data
rearm_if_valid(dw, pend, td, delay) ==
    IF td.packet_id = TOUCH_PACKET_ID /\ td.checksum # NO_TOUCH_SUM
    THEN schedule_delayed_work([dw EXCEPT !.pending = pend], delay)
    ELSE dw

\* the work item after the tail of ili2117_work, which finds the PENDING bit
\* as pend and the poll period converted to ticks as delay
rearm(dw, pend, td, delay) ==
    IF td.packet_id = TOUCH_PACKET_ID
    THEN schedule_delayed_work([dw EXCEPT !.pending = pend], delay)
    ELSE dw

\* if (touchdata.packet_id == 0x5a) schedule_delayed_work(...); return
work_resched(w) ==
    /\ wpc[w] = "resched"
    /\ uaf' = (uaf \/ freed)
    /\ \E delay \in {msecs_to_jiffies(period) : period \in priv_poll_period},
          pend \in priv_dwork_pending :
          /\ dwork' = rearm(dwork, pend, touchdata_of(wbuf[w]), delay)
          /\ resched' = IF touchdata_of(wbuf[w]).packet_id # TOUCH_PACKET_ID
                        THEN "none"
                        ELSE IF ~pend THEN "armed"
                        ELSE IF life = "rm_flush" THEN "blocked"
                        ELSE "absorbed"
    /\ wpc' = [wpc EXCEPT ![w] = "idle"]
    /\ wbuf' = [wbuf EXCEPT ![w] = NoBuf]
    /\ served' = 0
    /\ UNCHANGED << owed, life, irq_armed, freed, poll_period, input, during,
                    burst >>

\* the work function runs on a device state that has been released and the
\* memory is no longer intact: the function does not get to its end (while the
\* memory is intact the steps above run as usual, on the released state)
work_on_freed(w) ==
    /\ wpc[w] # "idle"
    /\ freed
    /\ uaf' = TRUE
    /\ wpc' = [wpc EXCEPT ![w] = "idle"]
    /\ wbuf' = [wbuf EXCEPT ![w] = NoBuf]
    /\ served' = 0
    /\ UNCHANGED << owed, life, irq_armed, freed, poll_period, dwork, input, during,
                    burst, resched >>

(***************************************************************************)
(* ili2117_i2c_probe, from request_irq on.                                  *)
(***************************************************************************)
\* request_irq succeeds
probe_request_irq ==
    /\ life = "probe_irq"
    /\ irq_armed' = TRUE
    /\ life' = "probe_reg"
    /\ UNCHANGED << owed, freed, poll_period, dwork, wpc, wbuf, input, uaf, during,
                    burst, served, resched >>

\* request_irq fails: goto err_free_mem
probe_request_irq_failed ==
    /\ life = "probe_irq"
    /\ life' = "probe_free"
    /\ UNCHANGED << owed, irq_armed, freed, poll_period, dwork, wpc, wbuf, input, uaf,
                    during, burst, served, resched >>

\* input_register_device succeeds: probe returns 0
probe_register ==
    /\ life = "probe_reg"
    /\ life' = "running"
    /\ UNCHANGED << owed, irq_armed, freed, poll_period, dwork, wpc, wbuf, input,
                    uaf, during, burst, served, resched >>

\* input_register_device fails: err_free_irq: free_irq(client->irq, priv)
probe_register_failed ==
    /\ life = "probe_reg"
    /\ irq_armed' = FALSE
    /\ life' = "probe_free"
    /\ UNCHANGED << owed, freed, poll_period, dwork, wpc, wbuf, input, uaf,
                    during, burst, served, resched >>

\* err_free_mem: input_free_device(input); kfree(priv); return error
probe_err_free_mem ==
    /\ life = "probe_free"
    /\ freed' = TRUE
    /\ life' = "failed"
    /\ UNCHANGED << owed, irq_armed, poll_period, dwork, wpc, wbuf, input, uaf,
                    during, burst, served, resched >>

(***************************************************************************)
(* ili2117_i2c_remove                                                       *)
(***************************************************************************)
\* free_irq(priv->client->irq, priv)
remove_free_irq ==
    /\ life = "running"
    /\ irq_armed' = FALSE
    /\ life' = "rm_cancel"
    /\ UNCHANGED << owed, freed, poll_period, dwork, wpc, wbuf, input, uaf, during,
                    burst, served, resched >>

\* variant: cancel_delayed_work, which does not wait for a running execution
remove_cancel_nosync ==
    /\ life = "rm_cancel"
    /\ dwork' = IdleWork
    /\ burst' = 0
    /\ life' = "rm_release"
    /\ UNCHANGED << owed, irq_armed, freed, poll_period, wpc, wbuf, input, uaf,
                    during, served, resched >>

\* cancel_delayed_work_sync, first half: the timer is deleted or the item is
\* taken off the workqueue, and PENDING stays set so that nobody can queue it
remove_cancel ==
    /\ life = "rm_cancel"
    /\ dwork' = [pending |-> TRUE, timer |-> NoTimer, queued |-> 0]
    /\ burst' = 0
    /\ life' = "rm_flush"
    /\ UNCHANGED << owed, irq_armed, freed, poll_period, wpc, wbuf, input, uaf,
                    during, served, resched >>

\* cancel_delayed_work_sync, second half: wait until no worker executes the
\* item, then clear PENDING and return
remove_flush ==
    /\ life = "rm_flush"
    /\ Running = {}
    /\ dwork' = [dwork EXCEPT !.pending = FALSE]
    /\ life' = "rm_release"
    /\ UNCHANGED << owed, irq_armed, freed, poll_period, wpc, wbuf, input, uaf,
                    during, burst, served, resched >>

\* input_unregister_device(priv->input); kfree(priv)
remove_release ==
    /\ life = "rm_release"
    /\ freed' = TRUE
    /\ life' = "removed"
    /\ UNCHANGED << owed, irq_armed, poll_period, dwork, wpc, wbuf, input, uaf,
                    during, burst, served, resched >>

(***************************************************************************)
(* Specification of the driver.                                             *)
(***************************************************************************)
Next ==
    \/ ili2117_irq
    \/ timer_tick
    \/ delayed_work_timer_fn
    \/ \E w \in Workers : process_one_work(w)
    \/ \E w \in Workers : work_read_failed(w)
    \/ \E w \in Workers : work_read_done(w)
    \/ \E w \in Workers : work_report(w)
    \/ \E w \in Workers : work_resched(w)
    \/ \E w \in Workers : work_on_freed(w)
    \/ probe_request_irq
    \/ probe_request_irq_failed
    \/ probe_register
    \/ probe_register_failed
    \/ probe_err_free_mem
    \/ remove_free_irq
    \/ remove_cancel
    \/ remove_flush
    \/ remove_release

Spec == Init /\ [][Next]_vars

(***************************************************************************)
(* Specification of the decoder alone: a worker holds a frame it has just   *)
(* read and reports it; the input device starts from either contact state.  *)
(***************************************************************************)
AllTouching ==
    [InitInput EXCEPT !.slots = [s \in Slots |->
                                    [active |-> TRUE, x |-> 4095, y |-> 7]]]

InitCodec ==
    /\ life = "running"
    /\ irq_armed = TRUE
    /\ freed = FALSE
    /\ poll_period = DEFAULT_POLL_PERIOD
    /\ dwork = IdleWork
    /\ wpc = [w \in Workers |-> IF w = 1 THEN "report" ELSE "idle"]
    /\ \E buf \in CodecFrames :
           wbuf = [w \in Workers |-> IF w = 1 THEN buf ELSE NoBuf]
    /\ input \in {InitInput, AllTouching}
    /\ uaf = FALSE
    /\ during = FALSE
    /\ burst = 0
    /\ served = 1
    /\ owed = FALSE
    /\ resched = "nocycle"

NextCodec == \E w \in Workers : work_report(w)

SpecCodec == InitCodec /\ [][NextCodec]_vars

(***************************************************************************)
(* Reading the calls of a packet back as slot events.                       *)
(***************************************************************************)
\* positions of the log at which a slot is selected
SlotStarts(log) == {k \in 1..Len(log) : log[k][1] = "slot"}

\* positions at which slot i is selected
StartsOf(log, i) == {k \in SlotStarts(log) : log[k][2] = i}

\* the state reported right after the selection at position k
StateAt(log, k) ==
    IF k + 1 <= Len(log) /\ log[k + 1][1] = "state"
    THEN log[k + 1][2] ELSE "missing"

\* the coordinate reported at position k, if it is one of the given kind
CoordAt(log, k, kind) ==
    IF k <= Len(log) /\ log[k][1] = kind THEN log[k][2] ELSE "missing"

\* workers that have reported the frame they hold
Reported == {w \in Workers : wpc[w] = "resched"}

\* byte at offset off (from 0) of a buffer
ByteAt(buf, off) == buf[off + 1]

(***************************************************************************)
(* C1 (as stated): every frame of a successful read cycle is 53 bytes long  *)
(* (5-byte finger records), and the event emitted for slot i is Touching    *)
(* iff packet_id = 0x5A, the frame checksum is not 0xFF and the checksum    *)
(* of finger i is not 0xFF, and Released otherwise.                         *)
(***************************************************************************)
C1_Frame53 ==
    \A w \in Reported :
        /\ Len(wbuf[w]) = 53
        /\ \A i \in Slots :
             \A k \in StartsOf(input.log, i) :
                StateAt(input.log, k) =
                    ( /\ ByteAt(wbuf[w], 0) = 90
                      /\ ByteAt(wbuf[w], 52) # 255
                      /\ ByteAt(wbuf[w], 1 + 5 * i + 4) # 255 )

(***************************************************************************)
(* C1 (amended): every frame of a successful read cycle is 43 bytes long    *)
(* (packet id, ten 4-byte finger records, key/proximity byte, checksum),    *)
(* and the event emitted for slot i is Touching iff packet_id = 0x5A, the   *)
(* frame checksum is not 0xFF and the checksum of finger i is not 0xFF,     *)
(* and Released otherwise.                                                  *)
(***************************************************************************)
C1_TouchingIff ==
    \A w \in Reported :
        /\ Len(wbuf[w]) = 43
        /\ \A i \in Slots :
             /\ StartsOf(input.log, i) # {}
             /\ \A k \in StartsOf(input.log, i) :
                   StateAt(input.log, k) =
                       ( /\ ByteAt(wbuf[w], 0) = 90
                         /\ ByteAt(wbuf[w], 42) # 255
                         /\ ByteAt(wbuf[w], 1 + 4 * i + 3) # 255 )

\* a frame with the touch packet id and a live frame checksum has been
\* reported with both touching and released slots
C1_Witness ==
    \E w \in Reported :
        /\ ByteAt(wbuf[w], 0) = 90
        /\ ByteAt(wbuf[w], 42) # 255
        /\ \E i, j \in Slots :
              /\ ByteAt(wbuf[w], 1 + 4 * i + 3) # 255
              /\ ByteAt(wbuf[w], 1 + 4 * j + 3) = 255
              /\ \E k \in StartsOf(input.log, i) : StateAt(input.log, k) = TRUE
              /\ \E k \in StartsOf(input.log, j) : StateAt(input.log, k) = FALSE

(***************************************************************************)
(* C2: a successful read cycle emits exactly ten slot events, one per slot  *)
(* in the order 0..9, each with its state, then the any-finger-touching     *)
(* value and the sync; that value is true iff some slot was reported        *)
(* Touching in the cycle.                                                   *)
(***************************************************************************)
C2_FullSnapshot ==
    \A w \in Reported :
        LET log == input.log
            n   == Len(log)
        IN  /\ Cardinality(SlotStarts(log)) = MAX_TOUCHES
            /\ \A i \in Slots : Cardinality(StartsOf(log, i)) = 1
            /\ \A k1, k2 \in SlotStarts(log) :
                  k1 < k2 => log[k1][2] < log[k2][2]
            /\ \A k \in SlotStarts(log) : StateAt(log, k) \in BOOLEAN
            /\ Cardinality({k \in 1..n : log[k][1] = "state"}) = MAX_TOUCHES
            /\ n >= 2
            /\ log[n - 1][1] = "pointer"
            /\ log[n] = <<"sync">>
            /\ \A k \in 1..(n - 2) :
                  log[k][1] \in {"slot", "state", "abs_x", "abs_y"}
            /\ log[n - 1][2] =
                  (\E k \in SlotStarts(log) : StateAt(log, k) = TRUE)

\* a cycle has reported some slots touching and some released, and the
\* any-finger-touching value it emitted is true
C2_Witness ==
    \E w \in Reported :
        /\ \E k \in SlotStarts(input.log) : StateAt(input.log, k) = TRUE
        /\ \E k \in SlotStarts(input.log) : StateAt(input.log, k) = FALSE
        /\ input.log[Len(input.log) - 1] = <<"pointer", TRUE>>

(***************************************************************************)
(* C8: for every slot reported Touching the coordinates emitted are         *)
(* x = x_lo + 256 * x_hi and y = y_lo + 256 * y_hi (the value of            *)
(* lo | (hi << 8)), for all 4-bit hi and 8-bit lo fields: nothing is        *)
(* clamped or masked, and x depends on x_hi/x_lo only, y on y_hi/y_lo only. *)
(***************************************************************************)
C8_Coordinates ==
    \A w \in Reported :
        \A i \in Slots :
            \A k \in StartsOf(input.log, i) :
                StateAt(input.log, k) = TRUE =>
                    LET hi == ByteAt(wbuf[w], 1 + 4 * i)
                        xl == ByteAt(wbuf[w], 1 + 4 * i + 1)
                        yl == ByteAt(wbuf[w], 1 + 4 * i + 2)
                    IN  /\ CoordAt(input.log, k + 2, "abs_x")
                              = xl + 256 * (hi \div 16)
                        /\ CoordAt(input.log, k + 3, "abs_y")
                              = yl + 256 * (hi % 16)
                        /\ input.slots[i] =
                              [active |-> TRUE,
                               x |-> xl + 256 * (hi \div 16),
                               y |-> yl + 256 * (hi % 16)]

\* a touching slot has been reported with all bits of x set and a y that
\* differs from it
C8_Witness ==
    \E w \in Reported :
        \E k \in SlotStarts(input.log) :
            /\ StateAt(input.log, k) = TRUE
            /\ CoordAt(input.log, k + 2, "abs_x") = 4095
            /\ CoordAt(input.log, k + 3, "abs_y") = 165

(***************************************************************************)
(* C9: every coordinate emitted for a Touching slot lies in [0, 2047]       *)
(* (X_MAX, Y_MAX).                                                          *)
(***************************************************************************)
C9_InRange ==
    \A w \in Reported :
        \A k \in 1..Len(input.log) :
            /\ input.log[k][1] = "abs_x" =>
                  (0 <= input.log[k][2] /\ input.log[k][2] <= X_MAX)
            /\ input.log[k][1] = "abs_y" =>
                  (0 <= input.log[k][2] /\ input.log[k][2] <= Y_MAX)

(***************************************************************************)
(* Reading the polling state.                                               *)
(***************************************************************************)
\* the packet id of the frame worker w holds
PacketIdOf(w) == ByteAt(wbuf[w], 0)

\* every slot event of the latest packet is a release
AllReleased ==
    /\ \A k \in SlotStarts(input.log) : StateAt(input.log, k) = FALSE
    /\ \A s \in Slots : ~input.slots[s].active

\* the poll interval in milliseconds a timer value stands for
TimerMsecs(t) == t * (1000 \div HZ)

Removing == life \in {"rm_cancel", "rm_flush", "rm_release", "removed"}
StopReturned == life \in {"rm_release", "removed"}

(***************************************************************************)
(* C3: when a successful read cycle ends with packet_id # 0x5A, all ten     *)
(* slots have been reported Released and the cycle requests no further      *)
(* read: the work item is left as it is, and the scheduler is Idle unless   *)
(* an interrupt fired while the cycle was running.                          *)
(***************************************************************************)
C3_StopsPolling ==
    [][ \A w \in Workers :
            (work_resched(w) /\ PacketIdOf(w) # 90) =>
                /\ AllReleased
                /\ Cardinality(SlotStarts(input.log)) = MAX_TOUCHES
                /\ dwork' = dwork
                /\ (~during => Idle') ]_vars

(***************************************************************************)
(* C4 (as stated): when a successful read cycle ends with packet_id = 0x5A  *)
(* exactly one further read is pending and it is due after the poll         *)
(* interval of 20 ms, whatever interrupts fired before or during the read.  *)
(***************************************************************************)
C4_AlwaysAfterInterval ==
    [][ \A w \in Workers :
            (work_resched(w) /\ PacketIdOf(w) = 90) =>
                /\ ReadsPending' = 1
                /\ dwork'.queued = 0
                /\ TimerMsecs(dwork'.timer) = DEFAULT_POLL_PERIOD ]_vars

(***************************************************************************)
(* C4 (amended): when a successful read cycle ends with packet_id = 0x5A    *)
(* it requests one further read after the poll interval (20 ms), whatever   *)
(* the frame checksum and the slots say.  If the work item is not pending,  *)
(* the request arms its timer with the poll interval.  If an interrupt      *)
(* fired during the cycle, the zero-delay read it queued stays pending and  *)
(* the request is absorbed; if the work item is being cancelled by remove,  *)
(* the request is dropped.  Outside that cancellation exactly one read is   *)
(* pending afterwards.  The statement is about cycles that end while the    *)
(* device state is allocated.                                               *)
(***************************************************************************)
C4_OneFurtherRead ==
    [][ \A w \in Workers :
            (~freed /\ work_resched(w) /\ PacketIdOf(w) = 90) =>
                /\ ~dwork.pending =>
                      /\ dwork' = [pending |-> TRUE, queued |-> 0,
                                   timer |-> msecs_to_jiffies(poll_period)]
                      /\ TimerMsecs(dwork'.timer) = DEFAULT_POLL_PERIOD
                /\ dwork.pending => dwork' = dwork
                /\ (dwork.pending /\ life # "rm_flush") =>
                      (during /\ dwork.queued = 1 /\ dwork.timer = NoTimer)
                /\ life # "rm_flush" => ReadsPending' = 1
                /\ life = "rm_flush" => ReadsPending' = 0 ]_vars

\* a cycle whose frame had the touch packet id but the sentinel frame
\* checksum has armed the timer with the poll interval
C4_Witness ==
    /\ resched = "armed"
    /\ ~freed
    /\ dwork.timer = msecs_to_jiffies(DEFAULT_POLL_PERIOD)
    /\ dwork.queued = 0
    /\ AllReleased
    /\ input.packets = 1
    /\ during = FALSE

(***************************************************************************)
(* C5: at most one read is pending (queued or waiting on its timer) in      *)
(* every state, and a read started for a burst of one or more interrupts    *)
(* that fired from Idle is the only one: while it runs and no further       *)
(* interrupt fires, no read is pending and no other worker runs the cycle.  *)
(***************************************************************************)
C5_Coalesced ==
    /\ ReadsPending <= 1
    /\ \A w \in Workers :
          (wpc[w] # "idle" /\ served >= 1 /\ ~during) =>
              /\ ReadsPending = 0
              /\ Running = {w}

(***************************************************************************)
(* C6: a cycle whose transport read fails emits nothing and leaves the      *)
(* input device as it was, requests no further read, and leaves the         *)
(* scheduler Idle unless an interrupt fired while the cycle was running;    *)
(* from then on the scheduler stays Idle until an interrupt fires.          *)
(***************************************************************************)
C6_Abandoned ==
    [][ /\ \A w \in Workers :
              work_read_failed(w) =>
                  /\ input' = input
                  /\ dwork' = dwork
                  /\ (~during => Idle')
        /\ (Idle /\ resched = "failed" /\ ~ili2117_irq) => Idle' ]_vars

(***************************************************************************)
(* C7: remove disarms the interrupt first; once cancel_delayed_work_sync    *)
(* has returned no cycle is running and no read is queued or waiting on     *)
(* its timer, even if the cycle in flight read packet_id = 0x5A and tried   *)
(* to re-arm itself; from then on nothing is emitted and no worker moves;   *)
(* remove releases the device state only then, and no cycle ever runs on    *)
(* state released by remove.                                                *)
(***************************************************************************)
C7_Teardown ==
    /\ [](Removing => ~irq_armed)
    /\ [](StopReturned => (Running = {} /\ ReadsPending = 0 /\ ~dwork.pending))
    /\ []((Removing /\ freed) => life = "removed")
    /\ [](Removing => ~uaf)
    /\ [][StopReturned => (input' = input /\ wpc' = wpc /\ dwork' = dwork)]_vars

\* remove has completed although the cycle that was in flight during the
\* cancellation read the touch packet id and tried to re-arm itself
C7_Witness ==
    /\ life = "removed"
    /\ freed
    /\ resched = "blocked"
    /\ input.packets = 1

(***************************************************************************)
(* C10: at most one execution of the read/decode/emit cycle is in progress  *)
(* at any time, whatever interrupts, timer expiries and re-read requests    *)
(* occur, and the input device changes only in the report step of that one  *)
(* execution: the slot events of two cycles are never interleaved.          *)
(***************************************************************************)
C10_Serialized ==
    /\ [](Cardinality(Running) <= 1)
    /\ [][ input' # input =>
              \E w \in Workers :
                  /\ Running = {w}
                  /\ Running' = {w}
                  /\ wpc[w] = "report"
                  /\ wpc'[w] = "resched" ]_vars

\* a read is queued while a cycle is running and another worker is free
C10_Witness ==
    /\ dwork.queued = 1
    /\ \E w, v \in Workers : w # v /\ wpc[w] = "report" /\ wpc[v] = "idle"

(***************************************************************************)
(* Specification with the scheduling the kernel provides: the timer ticks   *)
(* and fires, a queued work item is picked up by a worker, a bus transfer   *)
(* returns and the work function runs to its end.  Interrupts, probe and    *)
(* remove are not forced to happen.                                         *)
(***************************************************************************)
Fairness ==
    /\ WF_vars(timer_tick)
    /\ WF_vars(delayed_work_timer_fn)
    /\ WF_vars(\E w \in Workers : process_one_work(w))
    /\ WF_vars(\E w \in Workers : work_read_failed(w) \/ work_read_done(w))
    /\ WF_vars(\E w \in Workers : work_report(w))
    /\ WF_vars(\E w \in Workers : work_resched(w))

SpecLive == Init /\ [][Next]_vars /\ Fairness

\* the driver is armed: request_irq has succeeded, neither remove nor the
\* failure path of probe has begun
Armed == life \in {"probe_reg", "running"}

(***************************************************************************)
(* C11: the interrupt handler only requests scheduling.  In any state it    *)
(* performs no read, emits nothing and leaves the contact slots, the        *)
(* workers and their buffers unchanged; it makes a zero-delay read pending  *)
(* if the work item is not pending and has no effect on it otherwise.       *)
(***************************************************************************)
C11_IrqOnlySchedules ==
    [][ ili2117_irq =>
            /\ input' = input
            /\ wpc' = wpc
            /\ wbuf' = wbuf
            /\ << life, irq_armed, freed, poll_period >>'
                  = << life, irq_armed, freed, poll_period >>
            /\ dwork.pending => dwork' = dwork
            /\ ~dwork.pending =>
                  dwork' = [pending |-> TRUE, timer |-> NoTimer,
                            queued |-> 1] ]_vars

\* an interrupt has fired while a read was in flight on a device that holds
\* a touching contact: the contact is still there and the cycle goes on
C11_Witness ==
    /\ owed
    /\ during
    /\ \E w \in Workers : wpc[w] = "read"
    /\ dwork.queued = 1
    /\ \E s \in Slots : input.slots[s].active

(***************************************************************************)
(* C12: while the device is armed, every interrupt is eventually followed   *)
(* by the start of a read (or by the end of the armed period: remove or     *)
(* the failure of probe), also after a failed cycle and when the interrupt  *)
(* fires while a read is in flight.                                         *)
(***************************************************************************)
C12_IrqLeadsToRead == (owed /\ Armed) ~> (~owed \/ ~Armed)

\* the previous cycle failed, a new read is in flight and an interrupt has
\* fired during it, its own read not yet started
C12_Witness ==
    /\ owed
    /\ Armed
    /\ during
    /\ resched = "failed"
    /\ \E w \in Workers : wpc[w] = "report"

(***************************************************************************)
(* C13 (as stated): in every state of an armed device in which no read is   *)
(* pending or in flight, all ten slots were last reported Released.         *)
(***************************************************************************)
C13_IdleMeansReleased ==
    (Armed /\ Idle) => \A s \in Slots : ~input.slots[s].active

(***************************************************************************)
(* C13 (amended): in every state of an armed device in which no read is     *)
(* pending or in flight, either all ten slots were last reported Released   *)
(* or the latest cycle was abandoned on a transport failure (the contacts   *)
(* reported before it stay Touching until an interrupt starts a new read).  *)
(***************************************************************************)
C13_IdleReleasedUnlessFailed ==
    (Armed /\ Idle /\ resched # "failed") =>
        \A s \in Slots : ~input.slots[s].active

\* polling has ended after a second packet, which reported every slot
\* released
C13_Witness ==
    /\ Armed
    /\ Idle
    /\ resched = "none"
    /\ input.packets = 0
    /\ input.log # <<>>
    /\ AllReleased

(***************************************************************************)
(* C14: every execution of the cycle has a cause: when a worker starts it,  *)
(* an interrupt has fired since the previous start, or the previous cycle   *)
(* succeeded with packet_id = 0x5A and requested the re-read; and from      *)
(* Idle nothing but an interrupt leads out of Idle.                         *)
(***************************************************************************)
C14_ReadHasCause ==
    [][ /\ \A w \in Workers :
              process_one_work(w) =>
                  (owed \/ resched \in {"armed", "absorbed"})
        /\ (Idle /\ ~ili2117_irq) => Idle' ]_vars

C16_NeverFreedWhileBusy ==
    /\ freed => (ReadsPending = 0 /\ Running = {})
    /\ ~uaf

====
